---- MODULE Spec2Model ----
(***************************************************************************)
(* Model of src/main.py: the real-time position tracker.  One asyncio      *)
(* task per websocket connection runs against the process-wide state       *)
(* (manager.active_connections, manager.latest, manager.history,           *)
(* admin_connections, the users and locations tables).  A task runs        *)
(* without interruption between two awaits, so every action below is one   *)
(* stretch of a handler from the resumption of an await to the next await. *)
(*                                                                         *)
(* await websocket.send_text(m) is modelled by its invocation: the         *)
(* outcome of the send is drawn when it is invoked ("ok": the message is   *)
(* handed to the peer and the await returns later; "fail": the await       *)
(* raises; "stall": the await never returns), the message is logged for    *)
(* the peer at invocation when the outcome is "ok", and the task resumes   *)
(* in a later step.                                                        *)
(***************************************************************************)
EXTENDS Integers, Sequences, FiniteSets, TLC

\* ------------------------------------------------------------------ bounds
MaxClock == 2     \* the clock runs over 1..MaxClock seconds
MaxMsgs  == 2     \* messages received over all tracked-user connections (Spec)
MaxFaults == 1    \* injected faults: sends that raise or stall, failed commits
MaxHist  == 202   \* messages received by the one streaming connection (SpecHist)

\* ------------------------------------------------------- program constants
HISTORY_CAP == 200   \* main.py:163   len(manager.history[username]) > 200
QUERY_LIMIT == 200   \* main.py:216   .limit(200)
POLICY_VIOLATION == 1008   \* main.py:150, 189, 195   close(code=1008)

\* -------------------------------------------------------------- universes
UConns == {"c1", "c2"}          \* websockets opened on /ws/user/{token}
AConns == {"a1", "a2"}          \* websockets opened on /ws/admin/{token}
Names  == {"admin1", "u1", "u2"}
NoSub  == "<no sub>"
Invalid == "<HTTPException 401>"

\* A token is what jwt.decode sees of it: whether the signature verifies, the
\* "sub" claim and the "exp" claim (seconds).
TokU1      == [sig |-> TRUE,  sub |-> "u1",     exp |-> 99]
TokU2      == [sig |-> TRUE,  sub |-> "u2",     exp |-> 99]
TokAdmin   == [sig |-> TRUE,  sub |-> "admin1", exp |-> 99]
TokForged  == [sig |-> FALSE, sub |-> "admin1", exp |-> 99]
TokNoSub   == [sig |-> TRUE,  sub |-> NoSub,    exp |-> 99]
TokExpires == [sig |-> TRUE,  sub |-> "admin1", exp |-> 1]
Tokens == {TokU1, TokU2, TokAdmin, TokForged, TokNoSub, TokExpires}

\* ------------------------------------------------------------- verify_token
\* jwt.decode raises JWTError on a bad signature and (ExpiredSignatureError)
\* when exp < now.
JWTDecodeOk(token, t) == token.sig /\ ~(token.exp < t)

verify_token_nosubcheck(token, t) ==
    IF JWTDecodeOk(token, t) THEN token.sub ELSE Invalid
verify_token(token, t) ==
    IF JWTDecodeOk(token, t) /\ token.sub # NoSub THEN token.sub ELSE Invalid

\* ------------------------------------------------------ inbound user frames
\* A JSON value as float() sees it: a number, a string holding a number, any
\* other string, true or false (Python's True and False, which are the
\* integers 1 and 0), or None (null, or the key is missing: obj.get gives
\* None).
Num(v)    == [t |-> "num", v |-> v]
NumStr(v) == [t |-> "numstr", v |-> v]
Bool(b)   == [t |-> "bool", v |-> IF b THEN 1 ELSE 0]
BadStr    == [t |-> "str", v |-> 0]
Null      == [t |-> "null", v |-> 0]

\* float(x): the number for a number, a numeric string or a bool, else it
\* raises (ValueError for another string, TypeError for None).
to_float(x) == IF x.t \in {"num", "numstr", "bool"} THEN [ok |-> TRUE, v |-> x.v]
               ELSE [ok |-> FALSE, v |-> 0]

\* A frame: a text frame holding a JSON object, a text frame holding JSON that
\* is no object, a text frame that is no JSON, or a binary frame.
Obj(lat, lon) == [kind |-> "object", lat |-> lat, lon |-> lon]
NotObject == [kind |-> "array", lat |-> Null, lon |-> Null]
NotJson   == [kind |-> "garbage", lat |-> Null, lon |-> Null]
Binary    == [kind |-> "binary", lat |-> Null, lon |-> Null]

\* Lines 155-159: receive_text, json.loads, obj.get, float.  ok is FALSE when
\* any of them raises.
parse(frame) ==
    IF frame.kind # "object" THEN [ok |-> FALSE, lat |-> 0, lon |-> 0]
    ELSE LET la == to_float(frame.lat)
             lo == to_float(frame.lon)
         IN  [ok |-> la.ok /\ lo.ok, lat |-> la.v, lon |-> lo.v]

Lats == {1, 2}
Lons == {5}
Frames ==
    {Obj(Num(la), Num(lo)) : la \in Lats, lo \in Lons}
    \cup {Obj(NumStr(2), Num(5)), Obj(Null, Num(5)), Obj(Num(1), BadStr),
          Obj(Bool(TRUE), Num(5)), NotObject, NotJson, Binary}

\* ---------------------------------------------------------- list helpers
Last(s) == s[Len(s)]

\* list.remove(x): drops the first occurrence; ValueError (swallowed by the
\* callers' bare except) when x is absent.
RECURSIVE list_remove(_, _)
list_remove(l, x) ==
    IF l = <<>> THEN <<>>
    ELSE IF Head(l) = x THEN Tail(l)
    ELSE <<Head(l)>> \o list_remove(Tail(l), x)

Elems(l) == {l[i] : i \in 1..Len(l)}

\* ------------------------------------------------------------ the samples
Sample(lat, lon, ts) == [lat |-> lat, lon |-> lon, ts |-> ts]

\* Line 161.
set_latest_first_only(l, u, s) ==
    IF u \in DOMAIN l THEN l ELSE [k \in DOMAIN l \cup {u} |-> IF k = u THEN s ELSE l[k]]
set_latest(l, u, s) == [k \in DOMAIN l \cup {u} |-> IF k = u THEN s ELSE l[k]]

\* Lines 162-164: setdefault(username, []).append(s), then pop(0) over 200.
history_of(h, u) == IF u \in DOMAIN h THEN h[u] ELSE <<>>
append_evict_newest(hu, s) ==
    LET a == Append(hu, s)
    IN  IF Len(a) > HISTORY_CAP THEN SubSeq(a, 1, Len(a) - 1) ELSE a
append_evict(hu, s) ==
    LET a == Append(hu, s)
    IN  IF Len(a) > HISTORY_CAP THEN Tail(a) ELSE a
record_history_existing_only(h, u, s) ==
    [k \in DOMAIN h |-> IF k = u THEN append_evict(h[k], s) ELSE h[k]]
record_history(h, u, s) ==
    [k \in DOMAIN h \cup {u} |-> IF k = u THEN append_evict(history_of(h, u), s) ELSE h[k]]

\* Line 166: the row, its id the table's autoincrement key.
Location(id, username, lat, lon, ts) ==
    [id |-> id, username |-> username, lat |-> lat, lon |-> lon, timestamp |-> ts]

\* Line 170.
update_payload_swapped(username, lat, lon, ts) ==
    [type |-> "update", username |-> username, lat |-> lon, lon |-> lat, ts |-> ts]
update_payload(username, lat, lon, ts) ==
    [type |-> "update", username |-> username, lat |-> lat, lon |-> lon, ts |-> ts]
NoPayload == [type |-> "none", username |-> "", lat |-> 0, lon |-> 0, ts |-> 0]

\* Line 200.
initial_payload_newest_only(l, h) ==
    [type |-> "initial", latest |-> l, history |-> [k \in DOMAIN h |-> <<h[k][Len(h[k])]>>]]
initial_payload(l, h) == [type |-> "initial", latest |-> l, history |-> h]


\* ------------------------------------------------------------------ state
VARIABLES
    users,               \* users table: username -> is_admin
    locations,           \* locations table, in insertion order
    active_connections,  \* manager.active_connections: username -> websocket
    latest,              \* manager.latest: username -> sample
    history,             \* manager.history: username -> list of samples
    admin_connections,   \* the module-level list of admin websockets
    now,                 \* int(time.time())
    upc,                 \* websocket_user tasks: where each one is
    utoken,              \* websocket_user: the token of the path
    uname,               \* websocket_user: the local username
    ucur,                \* websocket_user: the iteration in progress (payload,
                         \* the list(admin_connections) copy, the loop index,
                         \* the outcome of the send in flight)
    uexit,               \* websocket_user: how the handler ended
    uclose,              \* close code the server sent on a user websocket
    apc,                 \* websocket_admin tasks: where each one is
    atoken,              \* websocket_admin: the token of the path
    aname,               \* websocket_admin: the local username
    aout,                \* websocket_admin: outcome of the initial send in flight
    aexit,               \* websocket_admin: how the handler ended
    aclose,              \* close code the server sent on an admin websocket
    adminLog,            \* per admin websocket, the messages sent to it, in order
    qres,                \* the request handled by the last step, if it was an
                         \* HTTP request, and its response
    recorded,            \* history variable: every sample recorded, in order
    stored,              \* history variable: per row of locations, its sample
    nrecv,               \* history variable: frames received per connection
    nfault               \* history variable: faults injected so far

vars == <<users, locations, active_connections, latest, history,
          admin_connections, now, upc, utoken, uname, ucur, uexit, uclose,
          apc, atoken, aname, aout, aexit, aclose, adminLog, qres,
          recorded, stored, nrecv, nfault>>

dbVars    == <<users, locations, stored>>
cacheVars == <<latest, history, recorded>>
userVars  == <<upc, utoken, uname, ucur, uexit, uclose, nrecv>>
Outcomes  == {"ok", "fail", "stall"}
adminVars == <<apc, atoken, aname, aout, aexit, aclose>>

NoToken == [sig |-> FALSE, sub |-> NoSub, exp |-> 0]
NoResp  == [status |-> 0, rows |-> <<>>, username |-> "", token |-> NoToken]
IdleCur == [sid |-> 0, payload |-> NoPayload, list |-> <<>>, i |-> 1,
            out |-> "none", failed |-> {}]

\* Lines 56-68, 89-91, 101-102: empty registries, and create_admin().
Init ==
    /\ users = [n \in {"admin1"} |-> 1]
    /\ locations = <<>>
    /\ active_connections = [n \in {} |-> "c1"]
    /\ latest = [n \in {} |-> Sample(0, 0, 0)]
    /\ history = [n \in {} |-> <<>>]
    /\ admin_connections = <<>>
    /\ now = 1
    /\ upc = [c \in UConns |-> "Connecting"]
    /\ utoken = [c \in UConns |-> NoToken]
    /\ uname = [c \in UConns |-> ""]
    /\ ucur = [c \in UConns |-> IdleCur]
    /\ uexit = [c \in UConns |-> "running"]
    /\ uclose = [c \in UConns |-> 0]
    /\ apc = [a \in AConns |-> "Connecting"]
    /\ atoken = [a \in AConns |-> NoToken]
    /\ aname = [a \in AConns |-> ""]
    /\ aout = [a \in AConns |-> "none"]
    /\ aexit = [a \in AConns |-> "running"]
    /\ aclose = [a \in AConns |-> 0]
    /\ adminLog = [a \in AConns |-> <<>>]
    /\ qres = NoResp
    /\ recorded = <<>>
    /\ stored = <<>>
    /\ nrecv = [c \in UConns |-> 0]
    /\ nfault = 0

\* ------------------------------------------------------- ConnectionManager
\* Lines 93-95, after the await of accept().
manager_connect(conns, username, ws) ==
    [k \in DOMAIN conns \cup {username} |-> IF k = username THEN ws ELSE conns[k]]

\* Lines 97-99.
manager_disconnect_all(conns, username) == [k \in {} |-> "c1"]
manager_disconnect(conns, username) ==
    [k \in DOMAIN conns \ {username} |-> conns[k]]

\* ------------------------------------------------------------- the clock
Tick ==
    /\ now < MaxClock
    /\ now' = now + 1
    /\ qres' = NoResp
    /\ UNCHANGED <<nfault, dbVars, cacheVars, userVars, adminVars, active_connections,
                   admin_connections, adminLog>>

\* ------------------------------------------------------- POST /register
\* Lines 122-132: a new user is stored with is_admin = 0; an existing name is
\* turned away.
register(username) ==
    /\ users' = IF username \in DOMAIN users THEN users
                ELSE [k \in DOMAIN users \cup {username} |->
                         IF k = username THEN 0 ELSE users[k]]
    /\ qres' = [NoResp EXCEPT !.status = 302, !.username = username]
    /\ UNCHANGED <<nfault, locations, stored, cacheVars, userVars, adminVars, now,
                   active_connections, admin_connections, adminLog>>

\* ------------------------------------------------------- /ws/user/{token}
\* Lines 147-152, up to the await inside manager.connect.
UserOpen(c, token) ==
    /\ upc[c] = "Connecting"
    /\ utoken' = [utoken EXCEPT ![c] = token]
    /\ LET username == verify_token(token, now)
       IN  IF username = Invalid
           THEN /\ upc' = [upc EXCEPT ![c] = "Closed"]
                /\ uclose' = [uclose EXCEPT ![c] = POLICY_VIOLATION]
                /\ uexit' = [uexit EXCEPT ![c] = "rejected"]
                /\ UNCHANGED uname
           ELSE /\ upc' = [upc EXCEPT ![c] = "Authenticated"]
                /\ uname' = [uname EXCEPT ![c] = username]
                /\ UNCHANGED <<uclose, uexit>>
    /\ qres' = NoResp
    /\ UNCHANGED <<nfault, dbVars, cacheVars, adminVars, now, ucur, nrecv,
                   active_connections, admin_connections, adminLog>>

\* Line 95, then the first await of receive_text (line 155).
UserAccept(c) ==
    /\ upc[c] = "Authenticated"
    /\ active_connections' = manager_connect(active_connections, uname[c], c)
    /\ upc' = [upc EXCEPT ![c] = "Receive"]
    /\ qres' = NoResp
    /\ UNCHANGED <<nfault, dbVars, cacheVars, adminVars, now, utoken, uname, ucur, uexit,
                   uclose, nrecv, admin_connections, adminLog>>

\* Lines 179-182: either except clause; the handler returns.
UserExit(c, why) ==
    /\ active_connections' = manager_disconnect(active_connections, uname[c])
    /\ upc' = [upc EXCEPT ![c] = "Closed"]
    /\ uexit' = [uexit EXCEPT ![c] = why]

\* receive_text raises WebSocketDisconnect (line 179).
UserDisconnect(c) ==
    /\ upc[c] = "Receive"
    /\ UserExit(c, "disconnect")
    /\ qres' = NoResp
    /\ UNCHANGED <<nfault, dbVars, cacheVars, adminVars, now, utoken, uname, ucur, uclose,
                   nrecv, admin_connections, adminLog>>

\* The outcomes of the sends to websocket a that are in flight.
Pending(a) ==
    {aout[a]} \cup {ucur[c].out : c \in {d \in UConns :
                         upc[d] = "Send" /\ ucur[d].list[ucur[d].i] = a}}

\* A send to a websocket whose handler has returned, or on which a send in
\* flight is about to raise, raises; a send to a websocket on which a send in
\* flight is stalled is queued behind it and stalls too; any other send may
\* succeed, raise or never return (the last two as long as the model's budget
\* of faults allows).
SendOutcomes(a) ==
    IF apc[a] = "Closed" \/ "fail" \in Pending(a) THEN {"fail"}
    ELSE IF "stall" \in Pending(a) THEN {"stall"}
    ELSE IF nfault < MaxFaults THEN Outcomes ELSE {"ok"}

Injected(a, o) == IF SendOutcomes(a) = Outcomes /\ o # "ok" THEN 1 ELSE 0

\* The record of one send in an admin's log.
deliver_first(log, sid, msg) == <<[sid |-> sid, msg |-> msg]>> \o log
deliver(log, sid, msg) == Append(log, [sid |-> sid, msg |-> msg])

\* Lines 171-173: the for loop at index i of its list: past the end the
\* iteration is over and the task awaits the next frame; else send_text is
\* invoked on list[i], with outcome o.
Iterate(c, cur, i, o) ==
    IF i > Len(cur.list)
    THEN /\ ucur' = [ucur EXCEPT ![c] = [cur EXCEPT !.i = i, !.out = "none"]]
         /\ upc' = [upc EXCEPT ![c] = "Receive"]
         /\ UNCHANGED <<adminLog, nfault>>
    ELSE /\ o \in SendOutcomes(cur.list[i])
         /\ nfault' = nfault + Injected(cur.list[i], o)
         /\ ucur' = [ucur EXCEPT ![c] = [cur EXCEPT !.i = i, !.out = o]]
         /\ upc' = [upc EXCEPT ![c] = "Send"]
         /\ adminLog' = IF o = "ok"
                        THEN [adminLog EXCEPT ![cur.list[i]] =
                                  deliver(@, cur.sid, cur.payload)]
                        ELSE adminLog

\* Lines 165-169: the append to the locations table.
db_append_nothing(rows, username, lat, lon, ts) == rows
db_append(rows, username, lat, lon, ts) ==
    Append(rows, Location(Len(rows) + 1, username, lat, lon, ts))

\* Lines 155-173: receive_text returns a frame; parse it; record the sample;
\* append it to the table (dbok: whether add/commit succeed); build the
\* payload, copy the admin list and invoke the first send.  Any exception
\* ends the handler through line 181.
UserReceive(c, frame, dbok, o) ==
    /\ upc[c] = "Receive"
    /\ nrecv' = [nrecv EXCEPT ![c] = @ + 1]
    /\ qres' = NoResp
    /\ LET p == parse(frame)
           username == uname[c]
           s == Sample(p.lat, p.lon, now)
           sid == Len(recorded) + 1
       IN  IF ~p.ok
           THEN /\ UserExit(c, "malformed")
                /\ UNCHANGED <<cacheVars, locations, stored, ucur, adminLog, nfault>>
           ELSE /\ latest' = set_latest(latest, username, s)
                /\ history' = record_history(history, username, s)
                /\ recorded' = Append(recorded,
                                   [c |-> c, username |-> username, s |-> s])
                /\ IF ~dbok
                   THEN /\ nfault < MaxFaults
                        /\ nfault' = nfault + 1
                        /\ UserExit(c, "store")
                        /\ UNCHANGED <<locations, stored, ucur, adminLog>>
                   ELSE /\ locations' = db_append(locations, username,
                                                  p.lat, p.lon, now)
                        /\ stored' = Append(stored, sid)
                        /\ Iterate(c, [sid |-> sid,
                                       payload |-> update_payload(username,
                                                       p.lat, p.lon, now),
                                       list |-> admin_connections,
                                       i |-> 1, out |-> "none", failed |-> {}],
                                   1, o)
                        /\ UNCHANGED <<active_connections, uexit>>
    /\ UNCHANGED <<users, adminVars, now, utoken, uname, uclose, admin_connections>>

\* Lines 174-178: what the except clause does to the admin list.
after_send(out, conns, ws) ==
    IF out = "fail" THEN list_remove(conns, ws) ELSE conns

\* Line 171: the index the for loop goes on with after a send.
next_index_break(out, i, n) == IF out = "fail" THEN n + 1 ELSE i + 1
next_index(out, i, n) == i + 1

\* Lines 173-178, then 171-173: the await of send_text returns or raises;
\* the loop goes on to the next admin of its list.
UserResume(c, o) ==
    /\ upc[c] = "Send"
    /\ ucur[c].out \in {"ok", "fail"}
    /\ LET cur == ucur[c]
           ws == cur.list[cur.i]
       IN  /\ admin_connections' = after_send(cur.out, admin_connections, ws)
           /\ Iterate(c, [cur EXCEPT !.failed =
                              IF cur.out = "fail" THEN @ \cup {ws} ELSE @],
                      next_index(cur.out, cur.i, Len(cur.list)), o)
    /\ qres' = NoResp
    /\ UNCHANGED <<dbVars, cacheVars, adminVars, now, utoken, uname, uexit, uclose,
                   nrecv, active_connections>>


\* ------------------------------------------------------ /ws/admin/{token}
\* Line 194: the role check against the users table.
is_admin_any_user(tbl, username) == username \in DOMAIN tbl
is_admin(tbl, username) == username \in DOMAIN tbl /\ tbl[username] # 0

\* Lines 186-197, up to the await of accept().
AdminOpen(a, token) ==
    /\ apc[a] = "Connecting"
    /\ atoken' = [atoken EXCEPT ![a] = token]
    /\ LET username == verify_token(token, now)
       IN  IF username = Invalid \/ ~is_admin(users, username)
           THEN /\ apc' = [apc EXCEPT ![a] = "Closed"]
                /\ aclose' = [aclose EXCEPT ![a] = POLICY_VIOLATION]
                /\ aexit' = [aexit EXCEPT ![a] =
                                IF username = Invalid THEN "rejected" ELSE "forbidden"]
                /\ aname' = [aname EXCEPT ![a] =
                                IF username = Invalid THEN "" ELSE username]
           ELSE /\ apc' = [apc EXCEPT ![a] = "Authorized"]
                /\ aname' = [aname EXCEPT ![a] = username]
                /\ UNCHANGED <<aclose, aexit>>
    /\ qres' = NoResp
    /\ UNCHANGED <<nfault, dbVars, cacheVars, userVars, now, aout,
                   active_connections, admin_connections, adminLog>>

\* Lines 198-201: accept() has returned; register, take the snapshot and invoke
\* its send, with outcome o.
AdminAccept(a, o) ==
    /\ apc[a] = "Authorized"
    /\ o \in SendOutcomes(a)
    /\ nfault' = nfault + Injected(a, o)
    /\ admin_connections' = Append(admin_connections, a)
    /\ adminLog' = IF o = "ok"
                   THEN [adminLog EXCEPT ![a] =
                             deliver(@, 0, initial_payload(latest, history))]
                   ELSE adminLog
    /\ apc' = [apc EXCEPT ![a] = "SendInitial"]
    /\ aout' = [aout EXCEPT ![a] = o]
    /\ qres' = NoResp
    /\ UNCHANGED <<dbVars, cacheVars, userVars, now, atoken, aname, aexit, aclose,
                   active_connections>>

\* The websocket of admin a is closed (its peer went away, or its handler
\* ended): a send to it that had not returned raises.
Woken(a) ==
    [c \in UConns |->
        IF upc[c] = "Send" /\ ucur[c].list[ucur[c].i] = a /\ ucur[c].out = "stall"
        THEN [ucur[c] EXCEPT !.out = "fail"]
        ELSE ucur[c]]

userLocals == <<upc, utoken, uname, uexit, uclose, nrecv>>

\* Lines 201-204: the await of the initial send returns, and the task awaits a
\* frame; or it raises, outside the try, and the handler ends.
AdminResume(a) ==
    /\ apc[a] = "SendInitial"
    /\ aout[a] \in {"ok", "fail"}
    /\ IF aout[a] = "ok"
       THEN /\ apc' = [apc EXCEPT ![a] = "Observing"]
            /\ UNCHANGED <<aexit, ucur>>
       ELSE /\ apc' = [apc EXCEPT ![a] = "Closed"]
            /\ aexit' = [aexit EXCEPT ![a] = "send error"]
            /\ ucur' = Woken(a)
    /\ aout' = [aout EXCEPT ![a] = "none"]
    /\ qres' = NoResp
    /\ UNCHANGED <<nfault, dbVars, cacheVars, userLocals, now, atoken, aname,
                   aclose, active_connections, admin_connections, adminLog>>

\* Lines 205-209: receive_text raises WebSocketDisconnect.
AdminDisconnect(a) ==
    /\ apc[a] = "Observing"
    /\ admin_connections' = list_remove(admin_connections, a)
    /\ apc' = [apc EXCEPT ![a] = "Closed"]
    /\ aexit' = [aexit EXCEPT ![a] = "disconnect"]
    /\ ucur' = Woken(a)
    /\ qres' = NoResp
    /\ UNCHANGED <<nfault, dbVars, cacheVars, userLocals, now, atoken, aname, aout,
                   aclose, active_connections, adminLog>>

\* Lines 204-205: receive_text raises something else (a binary frame has no
\* "text"): no except clause matches and the handler ends.
AdminReceiveError(a) ==
    /\ apc[a] = "Observing"
    /\ apc' = [apc EXCEPT ![a] = "Closed"]
    /\ aexit' = [aexit EXCEPT ![a] = "receive error"]
    /\ ucur' = Woken(a)
    /\ qres' = NoResp
    /\ UNCHANGED <<nfault, dbVars, cacheVars, userLocals, now, atoken, aname, aout,
                   aclose, active_connections, admin_connections, adminLog>>

\* --------------------------------------------- GET /api/history/{username}
\* Line 216: the rows of one username, ordered by timestamp descending, at
\* most 200 of them.  The order among rows of equal timestamp is the
\* database's choice.
Matching(rows, username) == {i \in 1..Len(rows) : rows[i].username = username}

Orderings(rows, username) ==
    LET M == Matching(rows, username)
        n == Cardinality(M)
    IN  {f \in [1..n -> M] :
            /\ \A i, j \in 1..n : i # j => f[i] # f[j]
            /\ \A i, j \in 1..n : i < j => rows[f[i]].timestamp >= rows[f[j]].timestamp}

Min(a, b) == IF a < b THEN a ELSE b

\* Line 218.
query_rows(rows, f) ==
    [i \in 1..Min(Len(f), QUERY_LIMIT) |->
        [lat |-> rows[f[i]].lat, lon |-> rows[f[i]].lon, ts |-> rows[f[i]].timestamp]]

\* Lines 213-218.
get_history(username, token) ==
    /\ IF verify_token(token, now) = Invalid
       THEN qres' = [status |-> 401, rows |-> <<>>,
                     username |-> username, token |-> token]
       ELSE \E f \in Orderings(locations, username) :
                qres' = [status |-> 200, rows |-> query_rows(locations, f),
                         username |-> username, token |-> token]
    /\ UNCHANGED <<nfault, dbVars, cacheVars, userVars, adminVars, now,
                   active_connections, admin_connections, adminLog>>

\* ----------------------------------------------------------- specification
Received == nrecv["c1"] + nrecv["c2"]

\* Websockets are named in the order they are opened.
Earlier(x) == IF x = "c2" THEN {"c1"} ELSE IF x = "a2" THEN {"a1"} ELSE {}
Ordered(pc, x) == \A y \in Earlier(x) : pc[y] # "Connecting"

\* The whole system: every websocket, every token, every frame.
Next ==
    \/ Tick
    \/ \E n \in {"u1", "admin1"} : register(n)
    \/ \E c \in UConns, t \in Tokens : Ordered(upc, c) /\ UserOpen(c, t)
    \/ \E c \in UConns : UserAccept(c)
    \/ \E c \in UConns : UserDisconnect(c)
    \/ \E c \in UConns, f \in Frames, dbok \in BOOLEAN, o \in Outcomes :
           Received < MaxMsgs /\ UserReceive(c, f, dbok, o)
    \/ \E c \in UConns, o \in Outcomes : UserResume(c, o)
    \/ \E a \in AConns, t \in Tokens : Ordered(apc, a) /\ AdminOpen(a, t)
    \/ \E a \in AConns, o \in Outcomes : AdminAccept(a, o)
    \/ \E a \in AConns : AdminResume(a)
    \/ \E a \in AConns : AdminDisconnect(a)
    \/ \E a \in AConns : AdminReceiveError(a)
    \/ \E n \in Names, t \in Tokens : get_history(n, t)

Spec == Init /\ [][Next]_vars

\* The specifications below are Spec with fewer websockets opened and fewer of
\* the inputs drawn: each of their behaviours is a behaviour of Spec.

\* Fan-out: one tracked user streaming to two admins.
NextFan ==
    \/ Tick
    \/ \E t \in {TokU1, TokForged} : UserOpen("c1", t)
    \/ UserAccept("c1")
    \/ UserDisconnect("c1")
    \/ \E f \in {Obj(Num(1), Num(5)), Obj(NumStr(2), Num(5)), Binary}, dbok \in BOOLEAN, o \in Outcomes :
           Received < MaxMsgs /\ UserReceive("c1", f, dbok, o)
    \/ \E o \in Outcomes : UserResume("c1", o)
    \/ \E a \in AConns, t \in {TokAdmin, TokU1} : Ordered(apc, a) /\ AdminOpen(a, t)
    \/ \E a \in AConns, o \in Outcomes : AdminAccept(a, o)
    \/ \E a \in AConns : AdminResume(a)
    \/ \E a \in AConns : AdminDisconnect(a)
    \/ \E a \in AConns : AdminReceiveError(a)

SpecFan == Init /\ [][NextFan]_vars

\* Tracking: two tracked users and one admin; the k-th frame of a websocket
\* carries latitude k, or is no JSON.
NextTrack ==
    \/ Tick
    \/ \E c \in UConns, t \in {TokU1, TokU2, TokNoSub} : Ordered(upc, c) /\ UserOpen(c, t)
    \/ \E c \in UConns : UserAccept(c)
    \/ \E c \in UConns : UserDisconnect(c)
    \/ \E c \in UConns :
         \E f \in {Obj(Num(nrecv[c] + 1), Num(5)), NotJson}, dbok \in BOOLEAN, o \in Outcomes :
            Received < MaxMsgs /\ UserReceive(c, f, dbok, o)
    \/ \E c \in UConns, o \in Outcomes : UserResume(c, o)
    \/ \E t \in {TokAdmin, TokExpires} : AdminOpen("a1", t)
    \/ \E o \in Outcomes : AdminAccept("a1", o)
    \/ AdminResume("a1")
    \/ AdminDisconnect("a1")
    \/ AdminReceiveError("a1")

SpecTrack == Init /\ [][NextTrack]_vars

\* Admission: every token at the three entry points, one websocket of each
\* kind.
NextGate ==
    \/ Tick
    \/ \E n \in {"u1", "admin1"} : register(n)
    \/ \E t \in Tokens : UserOpen("c1", t)
    \/ UserAccept("c1")
    \/ UserDisconnect("c1")
    \/ \E f \in {Obj(Num(1), Num(5)), Obj(Null, Num(5))}, dbok \in BOOLEAN, o \in Outcomes :
           Received < MaxMsgs /\ UserReceive("c1", f, dbok, o)
    \/ \E o \in Outcomes : UserResume("c1", o)
    \/ \E t \in Tokens : AdminOpen("a1", t)
    \/ \E o \in Outcomes : AdminAccept("a1", o)
    \/ AdminResume("a1")
    \/ AdminDisconnect("a1")
    \/ AdminReceiveError("a1")
    \/ \E t \in Tokens : get_history("u1", t)
    \/ get_history("u2", TokU1)

SpecGate == Init /\ [][NextGate]_vars

\* The history cap: c1 streams MaxHist samples, the k-th of latitude k, and c2
\* sends one sample of another user at any point of that stream.
NextHist ==
    \/ UserOpen("c1", TokU1)
    \/ UserOpen("c2", TokU2)
    \/ \E c \in UConns : UserAccept(c)
    \/ /\ nrecv["c1"] < MaxHist
       /\ UserReceive("c1", Obj(Num(nrecv["c1"] + 1), Num(5)), TRUE, "ok")
    \/ /\ nrecv["c2"] = 0
       /\ UserReceive("c2", Obj(Num(0), Num(5)), TRUE, "ok")

SpecHist == Init /\ [][NextHist]_vars

\* Parsing: one tracked user sends every kind of frame, one admin observes.
NextParse ==
    \/ Tick
    \/ UserOpen("c1", TokU1)
    \/ UserAccept("c1")
    \/ UserDisconnect("c1")
    \/ \E f \in Frames, dbok \in BOOLEAN, o \in Outcomes :
           Received < MaxMsgs /\ UserReceive("c1", f, dbok, o)
    \/ \E o \in Outcomes : UserResume("c1", o)
    \/ AdminOpen("a1", TokAdmin)
    \/ \E o \in Outcomes : AdminAccept("a1", o)
    \/ AdminResume("a1")
    \/ AdminDisconnect("a1")
    \/ AdminReceiveError("a1")

SpecParse == Init /\ [][NextParse]_vars

\* Query: two tracked users store samples, the k-th frame of a websocket
\* carrying latitude k, and the rows of u1 are queried with the credential of
\* u1, of another user, of the admin, and with a forged one.
NextQuery ==
    \/ Tick
    \/ UserOpen("c1", TokU1)
    \/ UserOpen("c2", TokU2)
    \/ \E c \in UConns : UserAccept(c)
    \/ \E c \in UConns : UserDisconnect(c)
    \/ \E c \in UConns, dbok \in BOOLEAN :
           /\ Received < MaxMsgs + 1
           /\ UserReceive(c, Obj(Num(nrecv[c] + 1), Num(5)), dbok, "ok")
    \/ \E t \in {TokU1, TokU2, TokAdmin, TokForged} : get_history("u1", t)

SpecQuery == Init /\ [][NextQuery]_vars

\* ================================================================ claims
\* The samples recorded for one username, in arrival order.
SamplesOf(u) ==
    LET rs == SelectSeq(recorded, LAMBDA r : r.username = u)
    IN  [i \in 1..Len(rs) |-> rs[i].s]

LastN(q, n) == SubSeq(q, Len(q) - Min(Len(q), n) + 1, Len(q))

Streaming(c) == upc[c] \in {"Receive", "Send"}

\* The updates of sample sid in the log of admin a.
Sent(a, sid) == {i \in 1..Len(adminLog[a]) : adminLog[a][i].sid = sid}

\* C1: for every username, after K samples recorded for it, under any
\* interleaving with other usernames, its history buffer holds min(K, 200)
\* samples, never more than 200, and they are its last min(K, 200) samples in
\* arrival order: the oldest sample is the one evicted.
C1_HistoryHoldsLastCap ==
    \A u \in Names :
        LET all == SamplesOf(u)
            h == history_of(history, u)
        IN  /\ Len(h) = Min(Len(all), HISTORY_CAP)
            /\ Len(h) <= HISTORY_CAP
            /\ h = LastN(all, HISTORY_CAP)

\* A username has recorded more samples than the cap, another username's
\* sample arrived among them, and the first sample kept is not the first
\* recorded.
C1_Witness ==
    /\ Len(SamplesOf("u1")) > HISTORY_CAP
    /\ \E i \in 2..Len(recorded) - 1 : recorded[i].username = "u2"
    /\ history["u1"][1] # SamplesOf("u1")[1]

\* C2: in every reachable state, under every interleaving of tracked-user
\* connections of distinct usernames, latest[username] is the sample most
\* recently recorded for that username (and there is an entry exactly for the
\* usernames that recorded one).
C2_LatestIsMostRecent ==
    \A u \in Names :
        LET all == SamplesOf(u)
        IN  /\ (u \in DOMAIN latest) <=> (all # <<>>)
            /\ all # <<>> => latest[u] = Last(all)

\* Two connections of distinct usernames are streaming, both have recorded,
\* and the username that recorded first is not the one that recorded last.
C2_Witness ==
    /\ Streaming("c1") /\ Streaming("c2")
    /\ uname["c1"] # uname["c2"]
    /\ Len(recorded) >= 2
    /\ recorded[1].username # recorded[Len(recorded)].username
    /\ recorded[1].s # recorded[Len(recorded)].s

\* C3: within one broadcast, a send that fails for one admin does not keep the
\* message from the admins after it in the list, the failure does not end the
\* tracked-user handler (it stays streaming, and registered as it was), and
\* the broadcast removes from admin_connections exactly the admins whose
\* send failed.
C3_Attempted(c) ==
    \A j \in 1..Len(ucur[c].list) :
        j < ucur[c].i =>
            \/ ucur[c].list[j] \in ucur[c].failed
            \/ Sent(ucur[c].list[j], ucur[c].sid) # {}

C3_State ==
    \A c \in UConns :
        /\ ucur[c].sid # 0 => C3_Attempted(c)
        /\ (upc[c] = "Receive" /\ ucur[c].sid # 0) =>
               /\ ucur[c].i = Len(ucur[c].list) + 1
               /\ ucur[c].failed \cap Elems(admin_connections) = {}

C3_Step ==
    \A c \in UConns :
        (upc[c] = "Send" /\ ucur'[c].i # ucur[c].i) =>
            LET ws == ucur[c].list[ucur[c].i]
            IN  /\ Streaming(c)'
                /\ active_connections' = active_connections
                /\ Elems(admin_connections') =
                       Elems(admin_connections) \
                           (IF ucur[c].out = "fail" THEN {ws} ELSE {})
                /\ ucur'[c].failed =
                       ucur[c].failed \cup (IF ucur[c].out = "fail" THEN {ws} ELSE {})

C3_FailedSendIsLocal == []C3_State /\ [][C3_Step]_vars

\* A broadcast to two admins is over: the send to the first failed, the
\* second was sent the message, and the handler awaits its next frame.
C3_Witness ==
    \E c \in UConns :
        /\ upc[c] = "Receive"
        /\ Len(ucur[c].list) = 2
        /\ ucur[c].failed = {ucur[c].list[1]}
        /\ Sent(ucur[c].list[2], ucur[c].sid) # {}
        /\ ucur[c].list[2] \in Elems(admin_connections)

\* The event loop runs every task that is ready: a task whose awaited send has
\* returned or raised is resumed.
FairFan ==
    /\ SpecFan
    /\ \A c \in UConns : WF_vars(\E o \in Outcomes : UserResume(c, o))
    /\ \A a \in AConns : WF_vars(AdminResume(a))

\* C4: when a send to one admin stalls, the broadcast still reaches the other
\* admins of its list and the handler goes on to await the next frame of its
\* connection: a stalled admin never blocks the broadcaster.
C4_Stalled(c) == upc[c] = "Send" /\ ucur[c].out = "stall"

C4_OthersReached(c) ==
    \A j \in 1..Len(ucur[c].list) :
        \/ j = ucur[c].i
        \/ ucur[c].list[j] \in ucur[c].failed
        \/ Sent(ucur[c].list[j], ucur[c].sid) # {}

C4_StalledAdminDoesNotBlock ==
    \A c \in UConns :
        C4_Stalled(c) ~> (C4_OthersReached(c) /\ upc[c] = "Receive")

\* C5: at the admin entry point, a credential that verifies but whose username
\* is no admin of the users table (or is not in it) is refused: the websocket
\* is closed with code 1008, is never in admin_connections and is sent
\* nothing.
C5_NonAdminRefused ==
    \A a \in AConns :
        (aname[a] # "" /\ (aname[a] \notin DOMAIN users \/ users[aname[a]] = 0)) =>
            /\ apc[a] = "Closed"
            /\ aclose[a] = POLICY_VIOLATION
            /\ a \notin Elems(admin_connections)
            /\ adminLog[a] = <<>>

\* u1 is registered, without the admin role; its credential was accepted at
\* the tracked-user entry point and refused at the admin entry point.
C5_Witness ==
    /\ "u1" \in DOMAIN users
    /\ Streaming("c1") /\ uname["c1"] = "u1"
    /\ apc["a1"] = "Closed" /\ aname["a1"] = "u1"

\* C6: at the tracked-user, admin and query entry points an invalid or
\* expired credential is refused (websocket closed with code 1008, request
\* rejected) and the refusal changes neither the registry, the cache, the
\* admin list nor the tables.
TokenBad(t, time) == ~t.sig \/ t.exp < time \/ t.sub = NoSub

C6_Untouched ==
    UNCHANGED <<users, locations, active_connections, latest, history,
                admin_connections, adminLog>>

C6_Step ==
    /\ \A c \in UConns :
           (upc[c] = "Connecting" /\ upc'[c] # "Connecting"
                /\ TokenBad(utoken'[c], now)) =>
               /\ upc'[c] = "Closed"
               /\ uclose'[c] = POLICY_VIOLATION
               /\ C6_Untouched
    /\ \A a \in AConns :
           (apc[a] = "Connecting" /\ apc'[a] # "Connecting"
                /\ TokenBad(atoken'[a], now)) =>
               /\ apc'[a] = "Closed"
               /\ aclose'[a] = POLICY_VIOLATION
               /\ C6_Untouched
    /\ (qres'.token # NoToken /\ TokenBad(qres'.token, now)) =>
           /\ qres'.status = 401
           /\ qres'.rows = <<>>
           /\ C6_Untouched

C6_BadCredentialRefused == [][C6_Step]_vars

\* With a sample stored, an expired admin credential has been refused at the
\* admin entry point and at the query entry point.
C6_Witness ==
    /\ Len(locations) > 0
    /\ apc["a1"] = "Closed" /\ atoken["a1"] = TokExpires /\ aname["a1"] = ""
    /\ aclose["a1"] = POLICY_VIOLATION
    /\ qres.status = 401 /\ qres.token = TokExpires

\* C7: the initial message of an admin holds, as they are when it is sent, a
\* latest map with one entry per username that has recorded a sample (its
\* most recent one) and a history map with, per such username, its last
\* min(K, 200) samples in arrival order; usernames no longer connected are
\* included.
Recorders == {u \in Names : SamplesOf(u) # <<>>}
ExpectedLatest == [u \in Recorders |-> Last(SamplesOf(u))]
ExpectedHistory == [u \in Recorders |-> LastN(SamplesOf(u), HISTORY_CAP)]

C7_Step ==
    \A a \in AConns :
        (apc[a] = "Authorized" /\ apc'[a] = "SendInitial") =>
            IF aout'[a] = "ok"
            THEN adminLog'[a] =
                     <<[sid |-> 0,
                        msg |-> [type |-> "initial",
                                 latest |-> ExpectedLatest,
                                 history |-> ExpectedHistory]]>>
            ELSE adminLog'[a] = adminLog[a]

C7_SnapshotIsCurrent == [][C7_Step]_vars

\* An admin was sent a snapshot of two usernames, one of which had
\* disconnected before.
C7_Witness ==
    \E a \in AConns :
        /\ adminLog[a] # <<>>
        /\ adminLog[a][1].msg.type = "initial"
        /\ Cardinality(DOMAIN adminLog[a][1].msg.latest) = 2
        /\ DOMAIN adminLog[a][1].msg.history = DOMAIN adminLog[a][1].msg.latest
        /\ \E u \in DOMAIN adminLog[a][1].msg.latest :
               /\ u \notin DOMAIN active_connections
               /\ \A c \in UConns : uname[c] = u => upc[c] = "Closed"

\* C8: for a sample received on a streaming connection of username u, when no
\* send fails, every admin of admin_connections at broadcast time is sent
\* exactly one message of type "update" with u, lat, lon and the ts stamped
\* at receipt, and the locations table gets exactly one row with the same u,
\* lat, lon and ts; no admin is ever sent a sample twice.
C8_Rows(sid) == {i \in 1..Len(stored) : stored[i] = sid}

C8_UpdateOnceAndStoredOnce ==
    /\ Len(locations) = Len(stored)
    /\ \A a \in AConns : \A sid \in 1..Len(recorded) :
           Cardinality(Sent(a, sid)) <= 1
    /\ \A c \in UConns :
           (upc[c] = "Receive" /\ ucur[c].sid # 0 /\ ucur[c].failed = {}) =>
               LET sid == ucur[c].sid
                   r == recorded[sid]
               IN  /\ r.c = c /\ r.username = uname[c]
                   /\ \A j \in 1..Len(ucur[c].list) :
                          LET a == ucur[c].list[j]
                          IN  /\ Cardinality(Sent(a, sid)) = 1
                              /\ \A i \in Sent(a, sid) :
                                     adminLog[a][i].msg =
                                         [type |-> "update",
                                          username |-> uname[c],
                                          lat |-> r.s.lat, lon |-> r.s.lon,
                                          ts |-> r.s.ts]
                   /\ Cardinality(C8_Rows(sid)) = 1
                   /\ \A i \in C8_Rows(sid) :
                          /\ locations[i].username = uname[c]
                          /\ locations[i].lat = r.s.lat
                          /\ locations[i].lon = r.s.lon
                          /\ locations[i].timestamp = r.s.ts

\* A broadcast to two admins is over with no failed send.
C8_Witness ==
    \E c \in UConns :
        /\ upc[c] = "Receive" /\ ucur[c].sid # 0 /\ ucur[c].failed = {}
        /\ Len(ucur[c].list) = 2
        /\ ucur[c].payload.lat # ucur[c].payload.lon

\* C9: the samples of one connection are stored and sent to each admin in the
\* order they were received on it: if two updates in an admin's log, or two
\* rows of the table, come from the same connection, the one received first
\* comes first.
C9_PerConnectionOrder ==
    /\ \A a \in AConns : \A i, j \in 1..Len(adminLog[a]) :
           LET x == adminLog[a][i].sid
               y == adminLog[a][j].sid
           IN  (i < j /\ x # 0 /\ y # 0 /\ recorded[x].c = recorded[y].c) => x < y
    /\ \A i, j \in 1..Len(stored) :
           (i < j /\ recorded[stored[i]].c = recorded[stored[j]].c) =>
               stored[i] < stored[j]

\* An admin was sent two updates of the same connection, both stored.
C9_Witness ==
    \E a \in AConns : \E i, j \in 1..Len(adminLog[a]) :
        /\ i < j
        /\ adminLog[a][i].sid # 0 /\ adminLog[a][j].sid # 0
        /\ recorded[adminLog[a][i].sid].c = recorded[adminLog[a][j].sid].c
        /\ Len(stored) = 2

\* C10: a failed append to the locations table does not interrupt the
\* real-time path: the connection stays streaming and registered, and the
\* sample, recorded in latest and history, is broadcast to the admins.
C10_Step ==
    \A c \in UConns :
        (/\ Len(recorded') = Len(recorded) + 1
         /\ Last(recorded').c = c
         /\ Len(locations') = Len(locations)) =>
            /\ Streaming(c)'
            /\ uname[c] \in DOMAIN active_connections'
            /\ latest'[uname[c]] = Last(recorded').s
            /\ ucur'[c].sid = Len(recorded')
            /\ ucur'[c].list = admin_connections

C10_StoreFailureIsNotFatal == [][C10_Step]_vars

\* C11: a frame that is unparseable, or whose lat or lon is missing or
\* non-numeric, is fatal to its connection: the handler leaves the receive
\* loop, the username is removed from active_connections, and the frame
\* changes neither latest nor history, appends no row and sends nothing to
\* any admin.  (A string that spells a number is counted as numeric here;
\* true, false, null and a missing key are not.)
NonNumeric(x) == x.t \notin {"num", "numstr"}

MalformedFrame(f) ==
    f.kind # "object" \/ NonNumeric(f.lat) \/ NonNumeric(f.lon)

C11_Step ==
    \A c \in UConns, f \in Frames, dbok \in BOOLEAN, o \in Outcomes :
        (MalformedFrame(f) /\ UserReceive(c, f, dbok, o)) =>
            /\ ~Streaming(c)'
            /\ uname[c] \notin DOMAIN active_connections'
            /\ UNCHANGED <<latest, history, locations, adminLog>>

C11_MalformedIsFatal == [][C11_Step]_vars

\* C12: the step that closes a tracked-user connection, by a disconnect or by
\* a fatal error, removes the entry of its username from active_connections
\* and nothing else: admin_connections is unchanged, latest and history keep
\* every entry (they change in that step only by the sample the step itself
\* recorded before failing).  After another connection of the same username
\* has opened, the samples of the closed one are still in latest/history, and
\* a sample of the new connection is broadcast to every admin of
\* admin_connections.
C12_Step ==
    \A c \in UConns :
        /\ (Streaming(c) /\ upc'[c] = "Closed") =>
               /\ active_connections' =
                      [k \in DOMAIN active_connections \ {uname[c]} |->
                          active_connections[k]]
               /\ admin_connections' = admin_connections
               /\ recorded' = recorded => (latest' = latest /\ history' = history)
               /\ \A u \in DOMAIN latest :
                      /\ u \in DOMAIN latest' /\ u \in DOMAIN history'
                      /\ u # uname[c] =>
                             latest'[u] = latest[u] /\ history'[u] = history[u]
                      /\ \A i \in 1..Len(history[u]) :
                             history'[u][i] = history[u][i]
        /\ (nrecv'[c] > nrecv[c] /\ Len(locations') > Len(locations)) =>
               ucur'[c].list = admin_connections

C12_State ==
    \A c, d \in UConns :
        (upc[c] = "Closed" /\ Streaming(d) /\ uname[c] = uname[d]) =>
            /\ \A i \in 1..Len(recorded) :
                   recorded[i].c = c =>
                       /\ uname[d] \in DOMAIN latest
                       /\ recorded[i].s \in Elems(history[uname[d]])
            /\ (upc[d] = "Receive" /\ ucur[d].sid # 0) =>
                   \A a \in Elems(ucur[d].list) :
                       a \in ucur[d].failed \/ Sent(a, ucur[d].sid) # {}

C12_DisconnectKeepsCache == []C12_State /\ [][C12_Step]_vars

\* A connection recorded a sample and closed; a second connection of the
\* same username then recorded one, which was sent to the admin: the history
\* holds both.
C12_Witness ==
    /\ upc["c1"] = "Closed" /\ upc["c2"] = "Receive"
    /\ uname["c1"] = uname["c2"]
    /\ Len(recorded) = 2
    /\ recorded[1].c = "c1" /\ recorded[2].c = "c2"
    /\ Len(history[uname["c2"]]) = 2
    /\ ucur["c2"].list = <<"a1">>
    /\ Sent("a1", 2) # {}

\* C13: a query for a username with a credential that verifies (of any user)
\* returns the min(K, 200) rows most recently appended for that username, K
\* being the number of its rows, the newest first, also when several of them
\* carry the same timestamp.
RowsOf(u) == SelectSeq(locations, LAMBDA r : r.username = u)

NewestFirst(u) ==
    LET rs == RowsOf(u)
        n == Len(rs)
    IN  [i \in 1..Min(n, QUERY_LIMIT) |->
            [lat |-> rs[n - i + 1].lat, lon |-> rs[n - i + 1].lon,
             ts |-> rs[n - i + 1].timestamp]]

C13_QueryNewestFirst ==
    qres.status = 200 => qres.rows = NewestFirst(qres.username)

\* C14: in every state and for every username, active_connections has an
\* entry for the username exactly when some tracked-user connection of that
\* username is streaming, and the websocket of the entry is one of them; also
\* when two connections of one username overlap.
C14_RegistryMatchesStreaming ==
    \A u \in Names :
        /\ (u \in DOMAIN active_connections) <=>
               (\E c \in UConns : Streaming(c) /\ uname[c] = u)
        /\ u \in DOMAIN active_connections =>
               /\ Streaming(active_connections[u])
               /\ uname[active_connections[u]] = u

\* C15: an admin websocket whose handler has ended, for whatever reason, is
\* not in admin_connections: closing removes it.
C15_ClosedAdminRemoved ==
    \A a \in AConns : apc[a] = "Closed" => a \notin Elems(admin_connections)

\* C16: in every state another task can observe, and in every initial
\* message sent, latest and history have the same usernames, no history is
\* empty, and for every username latest[username] is the last element of
\* history[username].
Untorn(l, h) ==
    /\ DOMAIN l = DOMAIN h
    /\ \A u \in DOMAIN l : h[u] # <<>> /\ l[u] = Last(h[u])

C16_NeverTorn ==
    /\ Untorn(latest, history)
    /\ \A a \in AConns : \A i \in 1..Len(adminLog[a]) :
           adminLog[a][i].msg.type = "initial" =>
               Untorn(adminLog[a][i].msg.latest, adminLog[a][i].msg.history)

\* An admin was sent a snapshot that held one sample of a username; that
\* username has recorded another since.
C16_Witness ==
    \E a \in AConns : \E u \in Names :
        /\ adminLog[a] # <<>>
        /\ adminLog[a][1].msg.type = "initial"
        /\ u \in DOMAIN adminLog[a][1].msg.latest
        /\ Len(history[u]) = 2
        /\ latest[u] # adminLog[a][1].msg.latest[u]

\* C17: the first message an admin websocket is sent is its initial message,
\* and every later one is an update: no update precedes the snapshot, although
\* the websocket is in admin_connections while the send of the snapshot is
\* suspended and tracked-user tasks broadcast meanwhile.
C17_InitialIsFirst ==
    \A a \in AConns : \A i \in 1..Len(adminLog[a]) :
        adminLog[a][i].msg.type = IF i = 1 THEN "initial" ELSE "update"

\* An admin was sent an update while the send of its snapshot had not
\* returned yet.
C17_Witness ==
    \E a \in AConns :
        /\ apc[a] = "SendInitial"
        /\ Len(adminLog[a]) = 2
        /\ adminLog[a][2].msg.type = "update"

\* C18: every update message sent to an admin is of a sample that, when the
\* message is sent, has been written to latest/history and has a row in the
\* locations table: the cache update and the append to the table come before
\* the broadcast.
C18_Update(m) ==
    LET r == recorded[m.sid]
    IN  /\ m.msg = [type |-> "update", username |-> r.username,
                    lat |-> r.s.lat, lon |-> r.s.lon, ts |-> r.s.ts]
        /\ r.username \in DOMAIN latest
        /\ r.s \in Elems(history_of(history, r.username))
        /\ \E i \in 1..Len(locations) :
               /\ i <= Len(stored) /\ stored[i] = m.sid
               /\ locations[i].username = r.username
               /\ locations[i].lat = r.s.lat
               /\ locations[i].lon = r.s.lon
               /\ locations[i].timestamp = r.s.ts

C18_RecordedAndStoredBeforeSent ==
    \A a \in AConns : \A i \in 1..Len(adminLog[a]) :
        adminLog[a][i].msg.type = "update" =>
            /\ adminLog[a][i].sid \in 1..Len(recorded)
            /\ C18_Update(adminLog[a][i])

\* Two samples were recorded; the commit of the first failed and it was sent
\* to nobody; the second was stored and sent to the admin.
C18_Witness ==
    /\ Len(recorded) = 2
    /\ stored = <<2>>
    /\ Sent("a1", 1) = {}
    /\ Sent("a1", 2) # {}

\* C19: for an admin websocket that is in admin_connections and to which no
\* send has failed or stalled, every sample recorded is conveyed exactly
\* once: a sample recorded before its snapshot was taken is in the snapshot
\* and is not sent to it as an update; a sample recorded after is sent to it
\* as an update, exactly once, as soon as the broadcast of that sample has
\* gone past the admin.
RECURSIVE SumLen(_, _)
SumLen(h, S) ==
    IF S = {} THEN 0
    ELSE LET u == CHOOSE x \in S : TRUE
         IN  Len(h[u]) + SumLen(h, S \ {u})

\* The number of samples recorded when the snapshot of admin a was taken.
SnapshotSize(a) ==
    LET h == adminLog[a][1].msg.history IN SumLen(h, DOMAIN h)

C19_Healthy(a) ==
    /\ a \in Elems(admin_connections)
    /\ apc[a] \in {"SendInitial", "Observing"}
    /\ adminLog[a] # <<>>
    /\ Pending(a) \cap {"fail", "stall"} = {}
    /\ \A c \in UConns : a \notin ucur[c].failed

\* The broadcast of sample sid has not reached admin a yet.
C19_Underway(a, sid) ==
    \E c \in UConns :
        /\ upc[c] = "Send" /\ ucur[c].sid = sid
        /\ \E j \in 1..Len(ucur[c].list) : ucur[c].list[j] = a /\ ucur[c].i < j

C19_ConveyedExactlyOnce ==
    \A a \in AConns :
        C19_Healthy(a) =>
            \A sid \in 1..Len(recorded) :
                IF sid <= SnapshotSize(a)
                THEN /\ recorded[sid].s \in
                            Elems(history_of(adminLog[a][1].msg.history,
                                             recorded[sid].username))
                     /\ Sent(a, sid) = {}
                ELSE \/ Cardinality(Sent(a, sid)) = 1
                     \/ Sent(a, sid) = {} /\ C19_Underway(a, sid)

====
